---------------------------- MODULE Spec2Model ----------------------------
(***************************************************************************)
(* A model of dream-collections: the per-item option flags, the player's   *)
(* collection and its file, the market query variables and the offer list. *)
(*                                                                         *)
(* Rust enums are modelled by their discriminants (declaration order), and *)
(* every conversion to text (Display, serde's variant names, lower-casing) *)
(* by a table lookup, so that encoding and decoding are distinct steps.    *)
(* Option<T> is <<>> (None) or <<x>> (Some(x)).  An Arc<Mutex<T>> is a     *)
(* reference into a table of cells.                                        *)
(***************************************************************************)
EXTENDS Integers, Sequences, FiniteSets, TLC

VARIABLES
    status,             \* "running", or "panicked" once init or view has panicked
    file,               \* the file collections.ron: [exists, data]
    collections,        \* AppModel.collections.collection: Vec<ClassSets>
    item_cells,         \* the Arc<Mutex<Item>> cells, by reference
    options_cells,      \* the Arc<Mutex<ItemOptions>> cells, by reference
    page,               \* the Page of the active nav item
    current_set_index,  \* AppModel.current_set_index
    offers,             \* AppModel.offers: <<tag, list of lots>>
    tasks,              \* the dispatched search futures that have not completed
    stderr,             \* the lines written with eprintln!
    events,             \* how many events this run has handled
    stale,              \* history: for each task in flight, whether the offers
                        \* have been emptied since it was dispatched
    converted,          \* the last From<String> conversion: its input and result
    pc,                 \* the main thread: the line it is at and the locals of
                        \* the handler or view it is in
    guards              \* the MutexGuards alive: those of the main thread and
                        \* those of each search future, in order of locking

vars == <<status, file, collections, item_cells, options_cells, page,
          current_set_index, offers, tasks, stderr, events, stale, converted,
          pc, guards>>

-----------------------------------------------------------------------------
(* Bounds of the model.                                                    *)

\* Events (user actions, task completions, restarts) handled in one run.
MaxEvents == 4
\* Lots in one response of the market.
MaxLots == 2
\* Search tasks in flight at once.
MaxTasks == 2
\* Events begun in one run of the lock-step specification.
MaxOps == 2

-----------------------------------------------------------------------------
(* Option<T> and small helpers.                                            *)

None == <<>>
Some(x) == <<x>>
IsSome(o) == Len(o) = 1
Unwrap(o) == o[1]

\* The elements of the sequence s.
Range(s) == {s[i] : i \in 1..Len(s)}

\* The index of x in the sequence s, 0 when it is not there.
IndexOf(s, x) ==
    IF x \in Range(s)
    THEN CHOOSE i \in 1..Len(s) : s[i] = x
    ELSE 0

RECURSIVE Concat(_)
\* The concatenation of a sequence of sequences.
Concat(ss) == IF ss = <<>> THEN <<>> ELSE Head(ss) \o Concat(Tail(ss))

-----------------------------------------------------------------------------
(* items.rs: the enumerations.                                             *)

\* enum ItemType, by discriminant 0..4; the strings of Display, which are
\* also the variant names serde writes.
ItemTypeNames == <<"Helm", "Armor", "Pants", "Gloves", "Boots">>
ItemType == 0..4
\* The variant ItemType::<name>.
Slot(name) == IndexOf(ItemTypeNames, name) - 1
\* #[default] Helm.
ItemTypeDefault == Slot("Helm")
\* impl Display for ItemType.
ItemTypeToString(t) == ItemTypeNames[t + 1]

\* str::to_lowercase on the strings of ItemType.
ToLowercase(s) ==
    CASE s = "Helm" -> "helm"
      [] s = "Armor" -> "armor"
      [] s = "Pants" -> "pants"
      [] s = "Gloves" -> "gloves"
      [] s = "Boots" -> "boots"
      [] OTHER -> s

\* enum ItemOptionType with its explicit discriminants MH = 0 .. Zen = 5;
\* the derived Ord compares discriminants.
ItemOptionTypeNames == <<"MH", "SD", "DD", "Ref", "Dsr", "Zen">>
ItemOptionType == 0..5
OptionType(name) == IndexOf(ItemOptionTypeNames, name) - 1
MH == OptionType("MH")
SD == OptionType("SD")
DD == OptionType("DD")
Ref == OptionType("Ref")
Dsr == OptionType("Dsr")
Zen == OptionType("Zen")

\* enum AllSets, by position 1..44 in the declaration: the variant names
\* (what serde writes and reads) and the labels of Display.
AllSetsNames == <<
    "Pad", "Bone", "Sphinx", "Legendary", "GrandSoul", "DarkSoul", "VenomMist",
    "Leather", "Bronze", "Scale", "Brass", "Plate", "Dragon", "BlackDragon",
    "DarkPhoenix", "GreatDragon", "DragonKnight",
    "Vine", "Silk", "Wind", "Spirit", "Guardian", "HolySpirit", "RedSpirit",
    "SylphidRay",
    "StormCrow", "ThunderHawk", "Hurricane", "Volcano",
    "LightPlate", "Adamantine", "DarkSteel", "DarkMaster", "Sunlight",
    "ViolentWind", "RedWinged", "Ancient", "Demonic", "StormBlitz", "Succubus",
    "SacredFire", "StormZahard", "PiercingGrove", "PhoenixSoul" >>
AllSets == 1..Len(AllSetsNames)
AllSetsLabels == <<
    "Pad", "Bone", "Sphinx", "Legendary", "Grand Soul", "Dark Soul", "Venom Mist",
    "Leather", "Bronze", "Scale", "Brass", "Plate", "Dragon", "Black Dragon",
    "Dark Phoenix", "Great Dragon", "Dragon Knight",
    "Vine", "Silk", "Wind", "Spirit", "Guardian", "Holy Spirit", "Red Spirit",
    "Sylphid Ray",
    "Storm Crow", "Thunder Hawk", "Hurricane", "Volcano",
    "Light Plate", "Adamantine", "Dark Steel", "Dark Master", "Sunlight",
    "Violent Wind", "Red Winged", "Ancient", "Demonic", "Storm Blitz", "Succubus",
    "Sacred Fire", "Storm Zahard", "Piercing Grove", "Phoenix Soul" >>
\* The variant AllSets::<name>.
Set(name) == IndexOf(AllSetsNames, name)
\* impl Display for AllSets.
AllSetsToString(s) == AllSetsLabels[s]

\* enum ClassSets, by position 0..6 in the declaration.
ClassSetsNames == <<"DarkWizard", "DarkKnight", "Elf", "MagicGladiator",
                    "DarkLord", "Summoner", "RageFighter">>
Class(name) == IndexOf(ClassSetsNames, name) - 1

\* enum Page (app.rs), by position 0..6, which is also the order in which
\* init inserts the nav items.
PageNames == <<"DarkWizard", "DarkKnight", "Elf", "Summoner",
               "MagicGladiator", "DarkLord", "RageFighter">>
Page(name) == IndexOf(PageNames, name) - 1
\* view: the ClassSets variant each Page arm looks for.
PageClass(p) == Class(PageNames[p + 1])

-----------------------------------------------------------------------------
(* items.rs: ItemOptions, a BTreeMap<ItemOptionType, bool>, held as the    *)
(* sequence of its <<key, value>> entries in iteration (key) order.        *)

BTreeNew == <<>>
BTreeKeys(m) == {m[i][1] : i \in 1..Len(m)}

\* BTreeMap::insert as a mutant would do it in an insertion-ordered map:
\* the entry moves to the end.
BTreeInsertAtEnd(m, k, v) ==
    SelectSeq(m, LAMBDA e : e[1] # k) \o << <<k, v>> >>

\* BTreeMap::insert: the value of k becomes v, entries stay in key order.
BTreeInsert(m, k, v) ==
    LET below == Cardinality({i \in 1..Len(m) : m[i][1] < k})
    IN  IF below < Len(m) /\ m[below + 1][1] = k
        THEN [m EXCEPT ![below + 1] = <<k, v>>]
        ELSE SubSeq(m, 1, below) \o << <<k, v>> >> \o SubSeq(m, below + 1, Len(m))

\* BTreeMap::get: Option<bool>.
BTreeGet(m, k) ==
    IF k \in BTreeKeys(m)
    THEN Some(m[CHOOSE i \in 1..Len(m) : m[i][1] = k][2])
    ELSE None

\* impl Default for ItemOptions: six inserts into an empty map.
ItemOptionsDefault ==
    BTreeInsert(BTreeInsert(BTreeInsert(BTreeInsert(BTreeInsert(BTreeInsert(
        BTreeNew, MH, FALSE), SD, FALSE), DD, FALSE), Ref, FALSE), Dsr, FALSE),
        Zen, FALSE)


-----------------------------------------------------------------------------
(* items.rs: Item and SetItems, as values (the cells are allocated below). *)

\* Item::new: the options are a fresh ItemOptions::default().
ItemNew(name, item_type) ==
    [options |-> ItemOptionsDefault, item_type |-> Some(item_type),
     name |-> Some(name)]

\* SetItems::new as a mutant would do it with the Gloves before the Pants.
SetItemsNewGlovesFirst(set_name) ==
    [set_string |-> AllSetsToString(set_name),
     set |-> set_name,
     items |-> << ItemNew(AllSetsToString(set_name), Slot("Helm")),
                  ItemNew(AllSetsToString(set_name), Slot("Armor")),
                  ItemNew(AllSetsToString(set_name), Slot("Gloves")),
                  ItemNew(AllSetsToString(set_name), Slot("Pants")),
                  ItemNew(AllSetsToString(set_name), Slot("Boots")) >>]

\* SetItems::new: the label of the set, and one item per slot type, in the
\* order Helm, Armor, Pants, Gloves, Boots, each named by the label.
SetItemsNew(set_name) ==
    [set_string |-> AllSetsToString(set_name),
     set |-> set_name,
     items |-> << ItemNew(AllSetsToString(set_name), Slot("Helm")),
                  ItemNew(AllSetsToString(set_name), Slot("Armor")),
                  ItemNew(AllSetsToString(set_name), Slot("Pants")),
                  ItemNew(AllSetsToString(set_name), Slot("Gloves")),
                  ItemNew(AllSetsToString(set_name), Slot("Boots")) >>]

\* The sets of one class, from the names of their variants.
NewSets(names) == [i \in 1..Len(names) |-> SetItemsNew(Set(names[i]))]

\* impl Default for PlayerCollection (app.rs).
PlayerCollectionDefault == <<
    [class |-> Class("DarkWizard"), sets |-> NewSets(<<
        "Pad", "Bone", "Sphinx", "Legendary", "GrandSoul", "DarkSoul",
        "VenomMist" >>)],
    [class |-> Class("DarkKnight"), sets |-> NewSets(<<
        "Leather", "Bronze", "Scale", "Brass", "Plate", "Dragon",
        "BlackDragon", "DarkPhoenix", "GreatDragon", "DragonKnight" >>)],
    [class |-> Class("Elf"), sets |-> NewSets(<<
        "Vine", "Silk", "Wind", "Spirit", "Guardian", "HolySpirit",
        "RedSpirit" >>)],
    [class |-> Class("Summoner"), sets |-> NewSets(<<
        "ViolentWind", "RedWinged", "Ancient", "Demonic", "StormBlitz",
        "Succubus" >>)],
    [class |-> Class("MagicGladiator"), sets |-> NewSets(<<
        "Pad", "Leather", "Bronze", "Bone", "Scale", "Sphinx", "Brass",
        "Plate", "Legendary", "Dragon", "StormCrow", "ThunderHawk",
        "Hurricane", "Volcano" >>)],
    [class |-> Class("DarkLord"), sets |-> NewSets(<<
        "Leather", "Bronze", "Scale", "LightPlate", "Adamantine",
        "DarkSteel", "DarkMaster", "Sunlight" >>)],
    [class |-> Class("RageFighter"), sets |-> NewSets(<<
        "Leather", "Scale", "Brass", "Plate", "SacredFire", "StormZahard",
        "PiercingGrove", "PhoenixSoul" >>)] >>

-----------------------------------------------------------------------------
(* Arc<Mutex<..>>: a collection value is placed into cells.  Every item of *)
(* a collection value gets a cell of its own for the item and one for its  *)
(* options (Arc::new in Item::new and SetItems::new, and serde's           *)
(* Deserialize for Arc), numbered in the order of construction.            *)

\* All items of a collection value, in order.
FlatItems(value) ==
    Concat([i \in 1..Len(value) |->
        Concat([j \in 1..Len(value[i].sets) |-> value[i].sets[j].items])])

RECURSIVE SetsBefore(_, _)
\* The number of sets in the classes before the i-th.
SetsBefore(value, i) ==
    IF i <= 1 THEN 0 ELSE SetsBefore(value, i - 1) + Len(value[i - 1].sets)

\* The reference of slot k of set j of class i (a set holds 5 items).
RefOf(value, i, j, k) == 5 * (SetsBefore(value, i) + (j - 1)) + k

\* The Vec<ClassSets> of a collection value: items are references.
AllocCollections(value) ==
    [i \in 1..Len(value) |->
        [class |-> value[i].class,
         sets |-> [j \in 1..Len(value[i].sets) |->
            [set_string |-> value[i].sets[j].set_string,
             set |-> value[i].sets[j].set,
             items |-> [k \in 1..5 |-> RefOf(value, i, j, k)]]]]]

\* The item cells: each item refers to its own options cell.
AllocItems(value) ==
    LET flat == FlatItems(value)
    IN  [r \in 1..Len(flat) |->
            [options |-> r, item_type |-> flat[r].item_type,
             name |-> flat[r].name]]

\* The options cells.
AllocOptions(value) ==
    LET flat == FlatItems(value)
    IN  [r \in 1..Len(flat) |-> flat[r].options]

\* The item behind a reference with its options read through its own
\* reference: what a holder of the Arc sees.
ReadItem(ics, ocs, r) ==
    [options |-> ocs[ics[r].options], item_type |-> ics[r].item_type,
     name |-> ics[r].name]

\* The value of a collection: every reference followed.
ValueOf(cs, ics, ocs) ==
    [i \in 1..Len(cs) |->
        [class |-> cs[i].class,
         sets |-> [j \in 1..Len(cs[i].sets) |->
            [set_string |-> cs[i].sets[j].set_string,
             set |-> cs[i].sets[j].set,
             items |-> [k \in 1..Len(cs[i].sets[j].items) |->
                ReadItem(ics, ocs, cs[i].sets[j].items[k])]]]]]

-----------------------------------------------------------------------------
(* items.rs and gql.rs: the variables of a market query.                   *)

\* One option field of the filter: Some([0,1,2,3,4]) when the map has the
\* key and its flag is set, None otherwise.
OptionFilter(options, k) ==
    LET has_option == BTreeGet(options, k)
    IN  IF IsSome(has_option) /\ Unwrap(has_option)
        THEN Some(<<0, 1, 2, 3, 4>>)
        ELSE None

\* Item::generate_gql_vars as a mutant would do it with the fields of
\* MH and SD exchanged.
generate_gql_vars_swapped(item) ==
    [filter |-> [dd |-> OptionFilter(item.options, DD),
                 dsr |-> OptionFilter(item.options, Dsr),
                 iml |-> OptionFilter(item.options, SD),
                 imsd |-> OptionFilter(item.options, MH),
                 rd |-> OptionFilter(item.options, Ref),
                 izdr |-> OptionFilter(item.options, Zen),
                 item_type |->
                    Some(<<ToLowercase(ItemTypeToString(Unwrap(item.item_type)))>>),
                 name |-> item.name],
     limit |-> 200,
     offset |-> 0,
     sort |-> [field |-> "LOT_FIELD_MIN_PRICE", sort_type |-> "SORT_TYPE_ASC"]]

\* Item::generate_gql_vars, for an item whose item_type is Some (the unwrap
\* of a None panics: see SearchMarket).  item.options is the map behind the
\* item's options reference.
generate_gql_vars(item) ==
    [filter |-> [dd |-> OptionFilter(item.options, DD),
                 dsr |-> OptionFilter(item.options, Dsr),
                 iml |-> OptionFilter(item.options, MH),
                 imsd |-> OptionFilter(item.options, SD),
                 rd |-> OptionFilter(item.options, Ref),
                 izdr |-> OptionFilter(item.options, Zen),
                 item_type |->
                    Some(<<ToLowercase(ItemTypeToString(Unwrap(item.item_type)))>>),
                 name |-> item.name],
     limit |-> 200,
     offset |-> 0,
     sort |-> [field |-> "LOT_FIELD_MIN_PRICE", sort_type |-> "SORT_TYPE_ASC"]]

\* JSON values, as serde_json writes them.
JsonNull == [json |-> "null"]
JsonValue(x) == [json |-> "value", value |-> x]
\* Serialize for Option<T>: None is written as null, Some(x) as x.
JsonOption(o) == IF IsSome(o) THEN JsonValue(Unwrap(o)) ELSE JsonNull

\* The derived Serialize of Filter: every field is written, under its name
\* or its serde rename; the JSON object is a function of its keys.
SerializeFilter(filter) ==
    [dd |-> JsonOption(filter.dd),
     dsr |-> JsonOption(filter.dsr),
     iml |-> JsonOption(filter.iml),
     imsd |-> JsonOption(filter.imsd),
     izdr |-> JsonOption(filter.izdr),
     rd |-> JsonOption(filter.rd),
     type |-> JsonOption(filter.item_type),
     name |-> JsonOption(filter.name)]

\* The derived Serialize of Vars and Sort: the variables object that the
\* client puts into the request.
SerializeVars(v) ==
    [filter |-> SerializeFilter(v.filter),
     limit |-> JsonValue(v.limit),
     offset |-> JsonValue(v.offset),
     sort |-> [field |-> JsonValue(v.sort.field),
               type |-> JsonValue(v.sort.sort_type)]]

-----------------------------------------------------------------------------
(* The file collections.ron.  Its text is empty, or does not parse as RON  *)
(* ("garbage"), or is a RON document, held as the tree RON reads: enum     *)
(* variants by name, a map as the list of its entries in file order.       *)

EmptyText == [text |-> "empty", value |-> <<>>]
GarbageText == [text |-> "garbage", value |-> <<>>]
RonText(doc) == [text |-> "ron", value |-> doc]

\* Serialize for Item: the Mutex of the options is locked and its map is
\* written entry by entry in iteration order, every key by its variant name.
SerializeItem(item) ==
    [options |-> [e \in 1..Len(item.options) |->
                    <<ItemOptionTypeNames[item.options[e][1] + 1],
                      item.options[e][2]>>],
     item_type |-> IF IsSome(item.item_type)
                   THEN Some(ItemTypeNames[Unwrap(item.item_type) + 1])
                   ELSE None,
     name |-> item.name]

\* to_string_pretty(&self.collections): the derived Serialize of
\* PlayerCollection, ClassSets and SetItems over a collection value.
SerializeCollection(value) ==
    [i \in 1..Len(value) |->
        [variant |-> ClassSetsNames[value[i].class + 1],
         sets |-> [j \in 1..Len(value[i].sets) |->
            [set_string |-> value[i].sets[j].set_string,
             set |-> AllSetsNames[value[i].sets[j].set],
             items |-> [k \in 1..Len(value[i].sets[j].items) |->
                SerializeItem(value[i].sets[j].items[k])]]]]]

RECURSIVE InsertAll(_, _)
\* Deserialize for BTreeMap: the entries are inserted in file order.
InsertAll(m, entries) ==
    IF entries = <<>> THEN m
    ELSE InsertAll(BTreeInsert(m, OptionType(Head(entries)[1]), Head(entries)[2]),
                   Tail(entries))

\* Whether the derived Deserialize accepts the item: every key of the map
\* and the slot type must be variant names.
ItemDecodes(d) ==
    /\ \A e \in 1..Len(d.options) : d.options[e][1] \in Range(ItemOptionTypeNames)
    /\ IsSome(d.item_type) => Unwrap(d.item_type) \in Range(ItemTypeNames)

\* Deserialize for Item.
DecodeItem(d) ==
    [options |-> InsertAll(BTreeNew, d.options),
     item_type |-> IF IsSome(d.item_type)
                   THEN Some(Slot(Unwrap(d.item_type)))
                   ELSE None,
     name |-> d.name]

\* Whether the derived Deserialize accepts the set: a variant name of
\* AllSets and an array of exactly 5 items.
SetDecodes(d) ==
    /\ d.set \in Range(AllSetsNames)
    /\ Len(d.items) = 5
    /\ \A k \in 1..Len(d.items) : ItemDecodes(d.items[k])

\* ron::from_str::<PlayerCollection> returns Ok.
FromStrOk(data) ==
    /\ data.text = "ron"
    /\ \A i \in 1..Len(data.value) :
        /\ data.value[i].variant \in Range(ClassSetsNames)
        /\ \A j \in 1..Len(data.value[i].sets) : SetDecodes(data.value[i].sets[j])

\* Deserialize for Item as a mutant would do it that rebuilds every item
\* with Item::new and so drops the flags of the file.
FromStrResettingOptions(data) ==
    [i \in 1..Len(data.value) |->
        [class |-> Class(data.value[i].variant),
         sets |-> [j \in 1..Len(data.value[i].sets) |->
            SetItemsNew(Set(data.value[i].sets[j].set))]]]

\* The value of ron::from_str::<PlayerCollection> when it is Ok.
FromStr(data) ==
    [i \in 1..Len(data.value) |->
        [class |-> Class(data.value[i].variant),
         sets |-> [j \in 1..Len(data.value[i].sets) |->
            [set_string |-> data.value[i].sets[j].set_string,
             set |-> Set(data.value[i].sets[j].set),
             items |-> [k \in 1..5 |->
                DecodeItem(data.value[i].sets[j].items[k])]]]]]

\* init, lines 239-247: the collection value read from the text of the
\* file; an empty text and a text that does not decode give the default.
LoadCollections(data) ==
    IF data.text = "empty"
    THEN PlayerCollectionDefault
    ELSE IF FromStrOk(data) THEN FromStr(data) ELSE PlayerCollectionDefault

-----------------------------------------------------------------------------
(* app.rs: what the view shows, and so which messages the widgets emit.    *)

\* view: the position in the collection of the first ClassSets of the
\* page's variant (find_map), 0 when there is none (the unwrap panics).
ClassAt(cs, p) ==
    IF \E i \in 1..Len(cs) : cs[i].class = PageClass(p)
    THEN CHOOSE i \in 1..Len(cs) :
            /\ cs[i].class = PageClass(p)
            /\ \A h \in 1..(i - 1) : cs[h].class # PageClass(p)
    ELSE 0

\* view: the sets handed to view_collections.
SetsOf(cs, p) == cs[ClassAt(cs, p)].sets

\* view and view_collections panic: no class of the page's variant, the
\* set index out of range (sets[self.current_set_index]), or a shown item
\* without a slot type (item_type.unwrap()).
ViewPanics(cs, ics, p, index) ==
    \/ ClassAt(cs, p) = 0
    \/ index >= Len(SetsOf(cs, p))
    \/ \E k \in 1..5 : ~IsSome(ics[SetsOf(cs, p)[index + 1].items[k]].item_type)

\* The status after the view has been built from the new state.
StatusAfter(cs, ics, p, index) ==
    IF ViewPanics(cs, ics, p, index) THEN "panicked" ELSE "running"

\* view_collections: the five items of the selected set, as references.
ShownItems == SetsOf(collections, page)[current_set_index + 1].items

\* view_collections: the set selector and the items (with their togglers
\* and search buttons) are pushed only while there are no offers.
SetPartsShown == offers[2] = <<>>

\* What the user chooses among the widgets shown.
NavChoices == {Page("DarkWizard"), Page("Summoner"), Page("MagicGladiator")}
SetChoices == {0, 6}
SlotChoices == {1, 2}
OptionChoices == {MH, DD}

-----------------------------------------------------------------------------
(* The market, an external service: the lots it may list for a query.      *)

\* The lots of the market that pass the name and type filter of the
\* variables: a lot names the item it lists.
LotsFor(v) ==
    {[listing |-> <<v.filter.name, v.filter.item_type>>,
      gear_score |-> g[1], prices |-> g[2]] :
        g \in {<<Some(150), <<[value |-> Some(3), title |-> Some("Zen")]>>>>,
               <<None, <<>>>>}}

RECURSIVE SeqsUpTo(_, _)
\* The sequences over S of length at most n.
SeqsUpTo(S, n) ==
    IF n = 0 THEN {<<>>}
    ELSE LET shorter == SeqsUpTo(S, n - 1)
         IN  shorter \cup {Append(q, x) : q \in shorter, x \in S}

\* The Data.lots.lots of the responses the market may give.
ResponsesFor(v) == SeqsUpTo(LotsFor(v), MaxLots)

-----------------------------------------------------------------------------
(* app.rs: init.                                                           *)

\* No From<String> conversion has been called.
NoConversion == [of |-> "none", input |-> "", output |-> None]

\* The main thread between two events, and no guard alive.
MainIdle == [at |-> "idle", item |-> 0, option |-> MH, enabled |-> FALSE,
             k |-> 0]
NoGuards == [main |-> <<>>, tasks |-> <<>>]

\* AppModel::init on the file system it finds: the fields of the model it
\* constructs and the file it leaves.  A missing file is created empty;
\* when it cannot be created the unwrap panics before there is a model.
AppInit(found, can_create) ==
    LET created == IF found.exists THEN found
                   ELSE [exists |-> TRUE, data |-> EmptyText]
        value == LoadCollections(created.data)
        cs == AllocCollections(value)
        ics == AllocItems(value)
    IN  IF ~found.exists /\ ~can_create
        THEN [status |-> "panicked", file |-> found, collections |-> <<>>,
              item_cells |-> <<>>, options_cells |-> <<>>]
        ELSE [status |-> StatusAfter(cs, ics, Page("DarkWizard"), 0),
              file |-> created, collections |-> cs, item_cells |-> ics,
              options_cells |-> AllocOptions(value)]

\* The state after init: the first nav item is active, the set index is 0
\* and there are no offers.
Launched(m) ==
    /\ status = m.status
    /\ file = m.file
    /\ collections = m.collections
    /\ item_cells = m.item_cells
    /\ options_cells = m.options_cells
    /\ page = Page("DarkWizard")
    /\ current_set_index = 0
    /\ offers = << <<>>, <<>> >>
    /\ tasks = <<>>
    /\ stderr = <<>>
    /\ stale = <<>>
    /\ converted = NoConversion

-----------------------------------------------------------------------------
(* app.rs: update, on_nav_select.  An action is one message handled, view  *)
(* included: a panic of the view ends the run.                             *)

CanHandle == status = "running" /\ events < MaxEvents

\* PlayerCollection::update_class_item as a mutant would do it that finds
\* the item by name and slot type instead of by reference.
update_class_item_by_name(ics, ocs, item, option, enabled) ==
    [r \in DOMAIN ocs |->
        IF \E h \in DOMAIN ics :
            /\ ics[h].options = r
            /\ ics[h].name = ics[item].name
            /\ ics[h].item_type = ics[item].item_type
        THEN BTreeInsert(ocs[r], option, enabled)
        ELSE ocs[r]]

\* PlayerCollection::update_class_item: the item's cell is locked, then its
\* options cell, and the flag is inserted.  The new options cells.
update_class_item(ics, ocs, item, option, enabled) ==
    [ocs EXCEPT ![ics[item].options] = BTreeInsert(@, option, enabled)]

\* Message::UpdateCurrentSet(index), from the dropdown of the shown sets.
UpdateCurrentSet(index) ==
    /\ CanHandle
    /\ SetPartsShown
    /\ index < Len(SetsOf(collections, page))
    /\ current_set_index' = index
    /\ status' = StatusAfter(collections, item_cells, page, index)
    /\ events' = events + 1
    /\ UNCHANGED <<file, collections, item_cells, options_cells, page, offers,
                   tasks, stderr, stale, converted, pc, guards>>

\* Message::UpdateItem(item, option, enabled), from the toggler of an entry
\* of the options of a shown item.
UpdateItem(item, option, enabled) ==
    /\ CanHandle
    /\ SetPartsShown
    /\ \E k \in 1..5 : ShownItems[k] = item
    /\ option \in BTreeKeys(options_cells[item_cells[item].options])
    /\ options_cells' =
        update_class_item(item_cells, options_cells, item, option, enabled)
    /\ events' = events + 1
    /\ UNCHANGED <<status, file, collections, item_cells, page,
                   current_set_index, offers, tasks, stderr, stale, converted, pc, guards>>

\* std::fs::write as a mutant would do it that does not overwrite a file
\* which already holds a document.
WrittenKeepingOld(text, outcome) ==
    CASE outcome = "ok" ->
            IF file.exists /\ file.data.text = "ron" THEN file
            ELSE [exists |-> TRUE, data |-> text]
      [] outcome = "not opened" -> file
      [] outcome = "not written" -> [exists |-> TRUE, data |-> EmptyText]

\* The file after std::fs::write(path, text): written; or left as it was
\* (it could not be opened); or left truncated (the write failed).
Written(text, outcome) ==
    CASE outcome = "ok" -> [exists |-> TRUE, data |-> text]
      [] outcome = "not opened" -> file
      [] outcome = "not written" -> [exists |-> TRUE, data |-> EmptyText]

\* Message::SaveCollections as a mutant would do it that unwraps the result
\* of std::fs::write.
SaveCollectionsPanicking(outcome) ==
    /\ CanHandle
    /\ LET data == RonText(SerializeCollection(
                        ValueOf(collections, item_cells, options_cells)))
       IN  file' = Written(data, outcome)
    /\ stderr' = IF outcome = "ok" THEN stderr
                 ELSE Append(stderr, "failed to save collections")
    /\ status' = IF outcome = "ok" THEN status ELSE "panicked"
    /\ events' = events + 1
    /\ UNCHANGED <<collections, item_cells, options_cells, page,
                   current_set_index, offers, tasks, stale, converted, pc, guards>>

\* Message::SaveCollections, from the button of the header.
SaveCollections(outcome) ==
    /\ CanHandle
    /\ LET data == RonText(SerializeCollection(
                        ValueOf(collections, item_cells, options_cells)))
       IN  file' = Written(data, outcome)
    /\ stderr' = IF outcome = "ok" THEN stderr
                 ELSE Append(stderr, "failed to save collections")
    /\ events' = events + 1
    /\ UNCHANGED <<status, collections, item_cells, options_cells, page,
                   current_set_index, offers, tasks, stale, converted, pc, guards>>

\* Message::ClearOffers as a mutant would do it that also goes back to the
\* first set.
ClearOffersResettingSet ==
    /\ CanHandle
    /\ offers' = <<offers[1], <<>>>>
    /\ current_set_index' = 0
    /\ stale' = [t \in 1..Len(tasks) |-> TRUE]
    /\ events' = events + 1
    /\ UNCHANGED <<status, file, collections, item_cells, options_cells, page,
                   tasks, stderr, converted, pc, guards>>

\* Message::ClearOffers, from the button of the header.
ClearOffers ==
    /\ CanHandle
    /\ offers' = <<offers[1], <<>>>>
    /\ stale' = [t \in 1..Len(tasks) |-> TRUE]
    /\ events' = events + 1
    /\ UNCHANGED <<status, file, collections, item_cells, options_cells, page,
                   current_set_index, tasks, stderr, converted, pc, guards>>

\* unwrap_or_default of an Option<String> and of an Option<ItemType>.
NameOrDefault(o) == IF IsSome(o) THEN Unwrap(o) ELSE ""
ItemTypeOrDefault(o) == IF IsSome(o) THEN Unwrap(o) ELSE ItemTypeDefault

\* format!("{} {}", name, item_type): the two strings a space apart.
ItemTitle(item) ==
    <<NameOrDefault(item.name), ItemTypeToString(ItemTypeOrDefault(item.item_type))>>

\* Message::SearchMarket as a mutant would do it that drops the futures
\* still in flight when it dispatches the new one.
SearchMarketCancelling(item) ==
    /\ CanHandle
    /\ SetPartsShown
    /\ Len(tasks) < MaxTasks
    /\ \E k \in 1..5 : ShownItems[k] = item
    /\ LET item_guard == ReadItem(item_cells, options_cells, item)
           v == generate_gql_vars(item_guard)
       IN  tasks' = << [item_title |-> ItemTitle(item_guard),
                        vars |-> v,
                        variables |-> SerializeVars(v)] >>
    /\ stale' = <<FALSE>>
    /\ events' = events + 1
    /\ UNCHANGED <<status, file, collections, item_cells, options_cells, page,
                   current_set_index, offers, stderr, converted, pc, guards>>

\* Message::SearchMarket(item), from the button of a shown item: the item
\* is locked, the variables and the title are built, and the future is
\* handed to the runtime; it sends the serialized variables.
SearchMarket(item) ==
    /\ CanHandle
    /\ SetPartsShown
    /\ Len(tasks) < MaxTasks
    /\ \E k \in 1..5 : ShownItems[k] = item
    /\ LET item_guard == ReadItem(item_cells, options_cells, item)
           v == generate_gql_vars(item_guard)
       IN  tasks' = Append(tasks, [item_title |-> ItemTitle(item_guard),
                                   vars |-> v,
                                   variables |-> SerializeVars(v)])
    /\ stale' = Append(stale, FALSE)
    /\ events' = events + 1
    /\ UNCHANGED <<status, file, collections, item_cells, options_cells, page,
                   current_set_index, offers, stderr, converted, pc, guards>>

\* The tasks without the t-th.
Without(q, t) == SubSeq(q, 1, t - 1) \o SubSeq(q, t + 1, Len(q))

\* The loop of Message::MarketSearchResult as a mutant would do it that
\* inserts every lot at the front of the list.
PushLotsAtFront(o, item, lots) ==
    IF lots = <<>> THEN o
    ELSE <<item, [i \in 1..Len(lots) |-> lots[Len(lots) + 1 - i]] \o o[2]>>

RECURSIVE PushLots(_, _, _)
\* The loop of Message::MarketSearchResult: for every lot the tag is set
\* and the lot is pushed.
PushLots(o, item, lots) ==
    IF lots = <<>> THEN o
    ELSE PushLots(<<item, Append(o[2], Head(lots))>>, item, Tail(lots))

\* The future of task t completes with data, and the runtime hands
\* Message::MarketSearchResult((item_title, data)) to update.
MarketSearchResult(t, lots) ==
    /\ CanHandle
    /\ t \in 1..Len(tasks)
    /\ lots \in ResponsesFor(tasks[t].vars)
    /\ offers' = PushLots(offers, tasks[t].item_title, lots)
    /\ tasks' = Without(tasks, t)
    /\ stale' = Without(stale, t)
    /\ events' = events + 1
    /\ UNCHANGED <<status, file, collections, item_cells, options_cells, page,
                   current_set_index, stderr, converted, pc, guards>>

\* The future of task t as a mutant would end it whose panic takes the
\* application down.
SearchTaskAborts(t) ==
    /\ CanHandle
    /\ t \in 1..Len(tasks)
    /\ tasks' = Without(tasks, t)
    /\ stale' = Without(stale, t)
    /\ stderr' = Append(stderr, "search task panicked")
    /\ status' = "panicked"
    /\ events' = events + 1
    /\ UNCHANGED <<file, collections, item_cells, options_cells, page,
                   current_set_index, offers, converted, pc, guards>>

\* The future of task t panics: the transport failed (unwrap of the Err)
\* or answered without data (expect("No data")).  The panic message goes
\* to the error stream, the future is dropped and no message is produced.
SearchTaskPanics(t) ==
    /\ CanHandle
    /\ t \in 1..Len(tasks)
    /\ tasks' = Without(tasks, t)
    /\ stale' = Without(stale, t)
    /\ stderr' = Append(stderr, "search task panicked")
    /\ events' = events + 1
    /\ UNCHANGED <<status, file, collections, item_cells, options_cells, page,
                   current_set_index, offers, converted, pc, guards>>

\* on_nav_select: the offers are cleared and the nav item is activated.
NavSelect(p) ==
    /\ CanHandle
    /\ offers' = <<offers[1], <<>>>>
    /\ page' = p
    /\ status' = StatusAfter(collections, item_cells, p, current_set_index)
    /\ stale' = [t \in 1..Len(tasks) |-> TRUE]
    /\ events' = events + 1
    /\ UNCHANGED <<file, collections, item_cells, options_cells,
                   current_set_index, tasks, stderr, converted, pc, guards>>

\* The application is closed (or has panicked) and is launched again: init
\* runs on the file as it is; the tasks of the old process are gone.
Restart(can_create) ==
    /\ events < MaxEvents
    /\ LET m == AppInit(file, can_create)
       IN  /\ status' = m.status
           /\ file' = m.file
           /\ collections' = m.collections
           /\ item_cells' = m.item_cells
           /\ options_cells' = m.options_cells
    /\ page' = Page("DarkWizard")
    /\ current_set_index' = 0
    /\ offers' = << <<>>, <<>> >>
    /\ tasks' = <<>>
    /\ stderr' = <<>>
    /\ stale' = <<>>
    /\ converted' = NoConversion
    /\ events' = events + 1
    /\ UNCHANGED <<pc, guards>>

-----------------------------------------------------------------------------
(* items.rs: the From<String> conversions of the labels.                   *)

\* impl From<String> for AllSets: the arms of the match, in order, each a
\* label and the variant it gives.
AllSetsFromArms == <<
    <<"Pad", "Pad">>, <<"Bone", "Bone">>, <<"Sphinx", "Sphinx">>,
    <<"Legendary", "Legendary">>, <<"Grand Soul", "GrandSoul">>,
    <<"Dark Soul", "DarkSoul">>, <<"Venom Mist", "VenomMist">>,
    <<"Leather", "Leather">>, <<"Bronze", "Bronze">>, <<"Scale", "Scale">>,
    <<"Brass", "Brass">>, <<"Plate", "Plate">>, <<"Dragon", "Dragon">>,
    <<"Black Dragon", "BlackDragon">>, <<"Dark Phoenix", "DarkPhoenix">>,
    <<"Great Dragon", "GreatDragon">>, <<"Dragon Knight", "DragonKnight">>,
    <<"Vine", "Vine">>, <<"Silk", "Silk">>, <<"Wind", "Wind">>,
    <<"Spirit", "Spirit">>, <<"Guardian", "Guardian">>,
    <<"Holy Spirit", "HolySpirit">>, <<"Red Spirit", "RedSpirit">>,
    <<"Sylphid Ray", "SylphidRay">>, <<"Storm Crow", "StormCrow">>,
    <<"Thunder Hawk", "ThunderHawk">>, <<"Hurricane", "Hurricane">>,
    <<"Volcano", "Volcano">>, <<"Light Plate", "LightPlate">>,
    <<"Adamantine", "Adamantine">>, <<"Dark Steel", "DarkSteel">>,
    <<"Dark Master", "DarkMaster">>, <<"Sunlight", "Sunlight">>,
    <<"Violent Wind", "ViolentWind">>, <<"Red Winged", "RedWinged">>,
    <<"Ancient", "Ancient">>, <<"Demonic", "Demonic">>,
    <<"Storm Blitz", "StormBlitz">>, <<"Succubus", "Succubus">>,
    <<"Sacred Fire", "SacredFire">>, <<"Storm Zahard", "StormZahard">>,
    <<"Piercing Grove", "PiercingGrove">>, <<"Phoenix Soul", "PhoenixSoul">> >>

\* From<String> for AllSets as a mutant would do it that matches the names
\* of the variants instead of the labels.
AllSetsFromVariantName(set_str) ==
    IF set_str \in Range(AllSetsNames) THEN Some(Set(set_str)) ELSE None

\* impl From<String> for AllSets: the variant of the first arm that equals
\* the string; None stands for the panic of the last arm.
AllSetsFrom(set_str) ==
    IF \E a \in 1..Len(AllSetsFromArms) : AllSetsFromArms[a][1] = set_str
    THEN LET a == CHOOSE a \in 1..Len(AllSetsFromArms) :
                    /\ AllSetsFromArms[a][1] = set_str
                    /\ \A h \in 1..(a - 1) : AllSetsFromArms[h][1] # set_str
         IN  Some(Set(AllSetsFromArms[a][2]))
    ELSE None

\* impl From<String> for ItemType: the arms of the match.
ItemTypeFromArms == <<
    <<"Helm", "Helm">>, <<"Armor", "Armor">>, <<"Pants", "Pants">>,
    <<"Gloves", "Gloves">>, <<"Boots", "Boots">> >>

\* impl From<String> for ItemType; None stands for the panic.
ItemTypeFrom(item_str) ==
    IF \E a \in 1..Len(ItemTypeFromArms) : ItemTypeFromArms[a][1] = item_str
    THEN LET a == CHOOSE a \in 1..Len(ItemTypeFromArms) :
                    ItemTypeFromArms[a][1] = item_str
         IN  Some(Slot(ItemTypeFromArms[a][2]))
    ELSE None

\* A call of AllSets::from(set_str) (as SetItems::from makes it); the
\* panic unwinds into the caller.
AllSetsFromString(set_str) ==
    /\ CanHandle
    /\ converted' = [of |-> "AllSets", input |-> set_str,
                     output |-> AllSetsFrom(set_str)]
    /\ status' = IF IsSome(AllSetsFrom(set_str)) THEN status ELSE "panicked"
    /\ events' = events + 1
    /\ UNCHANGED <<file, collections, item_cells, options_cells, page,
                   current_set_index, offers, tasks, stderr, stale, pc, guards>>

\* A call of ItemType::from(item_str).
ItemTypeFromString(item_str) ==
    /\ CanHandle
    /\ converted' = [of |-> "ItemType", input |-> item_str,
                     output |-> ItemTypeFrom(item_str)]
    /\ status' = IF IsSome(ItemTypeFrom(item_str)) THEN status ELSE "panicked"
    /\ events' = events + 1
    /\ UNCHANGED <<file, collections, item_cells, options_cells, page,
                   current_set_index, offers, tasks, stderr, stale, pc, guards>>

\* The strings handed to the conversions: every label of Display, and
\* strings that differ from a label in case, in a space or altogether.
SetLabels == {AllSetsToString(s) : s \in AllSets}
TypeLabels == {ItemTypeToString(t) : t \in ItemType}
NotLabels == {"", "pad", "PAD", "Pad ", "GrandSoul", "Grand soul", "grand soul",
              "SylphidRay", "helm", "HELM", "Helmet", "Shield"}
LabelInputs == SetLabels \cup TypeLabels \cup NotLabels

-----------------------------------------------------------------------------
(* The files a first launch may find.                                      *)

NoFile == [exists |-> FALSE, data |-> EmptyText]
FileWith(text) == [exists |-> TRUE, data |-> text]

\* The file an earlier session saved from the default collection.
SavedDefault == SerializeCollection(PlayerCollectionDefault)

\* The same with DD and Zen set on the Pad Helm of the Dark Wizard.
SavedToggled ==
    [SavedDefault EXCEPT ![1].sets[1].items[1].options[3] = <<"DD", TRUE>>,
                         ![1].sets[1].items[1].options[6] = <<"Zen", TRUE>>]

\* A file edited by hand: the Pad Helm of the Dark Wizard keeps two of its
\* options, out of order.
EditedPartial ==
    [SavedDefault EXCEPT ![1].sets[1].items[1].options =
                            << <<"Zen", TRUE>>, <<"MH", FALSE>> >>]

\* A file edited by hand: a set name that AllSets does not have.
EditedUnknownSet ==
    [SavedDefault EXCEPT ![1].sets[1].set = "Padd"]

InitialFiles ==
    {NoFile, FileWith(EmptyText), FileWith(GarbageText),
     FileWith(RonText(SavedToggled)), FileWith(RonText(EditedPartial)),
     FileWith(RonText(EditedUnknownSet))}

-----------------------------------------------------------------------------
(* The specification of one session of the application, from its first     *)
(* launch: there is no file yet.                                           *)

Init ==
    /\ \E can_create \in BOOLEAN : Launched(AppInit(NoFile, can_create))
    /\ events = 0
    /\ pc = MainIdle
    /\ guards = NoGuards

Next ==
    \/ \E index \in SetChoices : UpdateCurrentSet(index)
    \/ \E k \in SlotChoices, option \in OptionChoices, enabled \in BOOLEAN :
        UpdateItem(ShownItems[k], option, enabled)
    \/ \E outcome \in {"ok", "not opened", "not written"} : SaveCollections(outcome)
    \/ ClearOffers
    \/ \E k \in SlotChoices : SearchMarket(ShownItems[k])
    \/ \E t \in 1..Len(tasks) : \E lots \in ResponsesFor(tasks[t].vars) :
        MarketSearchResult(t, lots)
    \/ \E t \in 1..Len(tasks) : SearchTaskPanics(t)
    \/ \E p \in NavChoices : NavSelect(p)

Spec == Init /\ [][Next]_vars

-----------------------------------------------------------------------------
(* The specification of the collection store over launches: a launch on    *)
(* any of the files, toggles, saves, and a new launch on the file as the   *)
(* last session left it.                                                   *)

InitStore ==
    /\ \E found \in InitialFiles, can_create \in BOOLEAN :
        Launched(AppInit(found, can_create))
    /\ events = 0
    /\ pc = MainIdle
    /\ guards = NoGuards

NextStore ==
    \/ \E k \in SlotChoices, option \in OptionChoices, enabled \in BOOLEAN :
        UpdateItem(ShownItems[k], option, enabled)
    \/ \E outcome \in {"ok", "not opened", "not written"} : SaveCollections(outcome)
    \/ \E can_create \in (IF file.exists THEN {TRUE} ELSE BOOLEAN) :
        Restart(can_create)

SpecStore == InitStore /\ [][NextStore]_vars

-----------------------------------------------------------------------------
(* The specification of the label conversions: in a running application,   *)
(* the conversions are called on the strings of LabelInputs.               *)

InitLabels ==
    /\ Launched(AppInit(NoFile, TRUE))
    /\ events = 0
    /\ pc = MainIdle
    /\ guards = NoGuards

NextLabels ==
    \/ \E set_str \in LabelInputs : AllSetsFromString(set_str)
    \/ \E item_str \in LabelInputs : ItemTypeFromString(item_str)

SpecLabels == InitLabels /\ [][NextLabels]_vars

-----------------------------------------------------------------------------
(* The specification of the query builder: the default collection with any *)
(* flags on one item of a shown set (a state that toggles reach), and one  *)
(* search of a shown item.                                                 *)

\* The options with the flags of f, a function of the six kinds.
OptionsOf(f) == [e \in 1..6 |-> <<e - 1, f[e - 1]>>]

InitVars ==
    /\ \E index \in {0, 4}, k \in 1..5, f \in [ItemOptionType -> BOOLEAN] :
        LET m == AppInit(NoFile, TRUE)
            item == SetsOf(m.collections, Page("DarkWizard"))[index + 1].items[k]
        IN  /\ status = m.status
            /\ file = m.file
            /\ collections = m.collections
            /\ item_cells = m.item_cells
            /\ options_cells =
                [m.options_cells EXCEPT ![m.item_cells[item].options] = OptionsOf(f)]
            /\ current_set_index = index
    /\ page = Page("DarkWizard")
    /\ offers = << <<>>, <<>> >>
    /\ tasks = <<>>
    /\ stderr = <<>>
    /\ stale = <<>>
    /\ converted = NoConversion
    /\ events = 0
    /\ pc = MainIdle
    /\ guards = NoGuards

NextVars ==
    \E k \in 1..5 : tasks = <<>> /\ SearchMarket(ShownItems[k])

SpecVars == InitVars /\ [][NextVars]_vars

-----------------------------------------------------------------------------
(* The locks of the items and of their options, step by step: the handlers *)
(* of the toggle, the search and the save, the view, and the search        *)
(* futures, each advancing from one lock or unlock to the next.            *)

\* The mutex of the item cell r, and the mutex of the options cell of r.
ItemLock(r) == <<"item", r>>
OptionsLock(r) == <<"options", item_cells[r].options>>

\* Mutex::lock returns only while no guard of the mutex is alive, whoever
\* holds it: std::sync::Mutex is not reentrant.
Free(m) ==
    /\ m \notin Range(guards.main)
    /\ \A t \in 1..Len(guards.tasks) : m \notin Range(guards.tasks[t].held)

\* lock().unwrap() on the main thread: the guard is alive from here on.
Lock(m) == Free(m) /\ guards' = [guards EXCEPT !.main = Append(@, m)]

\* The guards of q without that of m.
Dropped(q, m) == SelectSeq(q, LAMBDA g : g # m)

\* A guard of the main thread goes out of scope.
Drop(m) == guards' = [guards EXCEPT !.main = Dropped(@, m)]

\* The main thread moves on to line l.
Goto(l) == pc' = [pc EXCEPT !.at = l]

\* update has returned: the runtime calls view, whose loop starts with the
\* first of the items of the selected set.
ViewStarts == pc' = [pc EXCEPT !.at = "616", !.k = 1]

\* The runtime hands update a message only between two events.
CanBegin == pc.at = "idle" /\ status = "running" /\ events < MaxOps

\* The four steps of Message::UpdateItem: update_class_item locks the item,
\* locks its options for the insert statement, and returns.
UpdateItemBegins(item, option, enabled) ==
    /\ CanBegin
    /\ SetPartsShown
    /\ \E k \in 1..5 : ShownItems[k] = item
    /\ option \in BTreeKeys(options_cells[item_cells[item].options])
    /\ pc' = [pc EXCEPT !.at = "136", !.item = item, !.option = option,
                        !.enabled = enabled]
    /\ events' = events + 1
    /\ UNCHANGED <<status, file, collections, item_cells, options_cells, page,
                   current_set_index, offers, tasks, stderr, stale, converted,
                   guards>>

UpdateItemLocksItem ==
    /\ pc.at = "136"
    /\ Lock(ItemLock(pc.item))
    /\ Goto("138")
    /\ UNCHANGED <<status, file, collections, item_cells, options_cells, page,
                   current_set_index, offers, tasks, stderr, events, stale,
                   converted>>

UpdateItemLocksOptions ==
    /\ pc.at = "138"
    /\ Lock(OptionsLock(pc.item))
    /\ Goto("138 held")
    /\ UNCHANGED <<status, file, collections, item_cells, options_cells, page,
                   current_set_index, offers, tasks, stderr, events, stale,
                   converted>>

\* The insert, at the end of whose statement the guard of the options, a
\* temporary, is dropped.
UpdateItemInserts ==
    /\ pc.at = "138 held"
    /\ options_cells' = update_class_item(item_cells, options_cells, pc.item,
                                          pc.option, pc.enabled)
    /\ Drop(OptionsLock(pc.item))
    /\ Goto("140")
    /\ UNCHANGED <<status, file, collections, item_cells, page,
                   current_set_index, offers, tasks, stderr, events, stale,
                   converted>>

UpdateItemReturns ==
    /\ pc.at = "140"
    /\ Drop(ItemLock(pc.item))
    /\ ViewStarts
    /\ UNCHANGED <<status, file, collections, item_cells, options_cells, page,
                   current_set_index, offers, tasks, stderr, events, stale,
                   converted>>

\* The steps of Message::SearchMarket: the handler locks the item,
\* generate_gql_vars locks the options while it builds the variables, and
\* the future is returned to the runtime.
SearchMarketBegins(item) ==
    /\ CanBegin
    /\ SetPartsShown
    /\ Len(tasks) < MaxTasks
    /\ \E k \in 1..5 : ShownItems[k] = item
    /\ pc' = [pc EXCEPT !.at = "517", !.item = item]
    /\ events' = events + 1
    /\ UNCHANGED <<status, file, collections, item_cells, options_cells, page,
                   current_set_index, offers, tasks, stderr, stale, converted,
                   guards>>

SearchMarketLocksItem ==
    /\ pc.at = "517"
    /\ Lock(ItemLock(pc.item))
    /\ Goto("519")
    /\ UNCHANGED <<status, file, collections, item_cells, options_cells, page,
                   current_set_index, offers, tasks, stderr, events, stale,
                   converted>>

\* items.rs, line 156.
GqlVarsLocksOptions ==
    /\ pc.at = "519"
    /\ Lock(OptionsLock(pc.item))
    /\ Goto("519 held")
    /\ UNCHANGED <<status, file, collections, item_cells, options_cells, page,
                   current_set_index, offers, tasks, stderr, events, stale,
                   converted>>

\* generate_gql_vars returns the variables, which own their data: its guard
\* is dropped.
GqlVarsReturns ==
    /\ pc.at = "519 held"
    /\ Drop(OptionsLock(pc.item))
    /\ Goto("527")
    /\ UNCHANGED <<status, file, collections, item_cells, options_cells, page,
                   current_set_index, offers, tasks, stderr, events, stale,
                   converted>>

\* The task a dispatch adds: the future in flight with the variables.
Dispatched(item) ==
    LET item_guard == ReadItem(item_cells, options_cells, item)
        v == generate_gql_vars(item_guard)
    IN  Append(tasks, [item_title |-> ItemTitle(item_guard), vars |-> v,
                       variables |-> SerializeVars(v)])

\* Message::SearchMarket as a mutant would return its future that moves the
\* guard of the item into the async block: the guard lives as long as the
\* future runs.
SearchMarketDispatchesWithGuard ==
    /\ pc.at = "527"
    /\ tasks' = Dispatched(pc.item)
    /\ stale' = Append(stale, FALSE)
    /\ guards' = [main |-> Dropped(guards.main, ItemLock(pc.item)),
                  tasks |-> Append(guards.tasks,
                                   [held |-> <<ItemLock(pc.item)>>,
                                    returned |-> FALSE])]
    /\ ViewStarts
    /\ UNCHANGED <<status, file, collections, item_cells, options_cells, page,
                   current_set_index, offers, stderr, events, converted>>

\* return Task::future(async move { .. }): the block owns the query, the
\* variables and the title; the guard of the item is dropped on return.
SearchMarketDispatches ==
    /\ pc.at = "527"
    /\ tasks' = Dispatched(pc.item)
    /\ stale' = Append(stale, FALSE)
    /\ guards' = [main |-> Dropped(guards.main, ItemLock(pc.item)),
                  tasks |-> Append(guards.tasks,
                                   [held |-> <<>>, returned |-> FALSE])]
    /\ ViewStarts
    /\ UNCHANGED <<status, file, collections, item_cells, options_cells, page,
                   current_set_index, offers, stderr, events, converted>>

\* On a thread of the runtime the query of future t returns: the future
\* ends, what it owned is dropped, and its message waits for the main
\* thread.
QueryReturns(t) ==
    /\ t \in 1..Len(guards.tasks)
    /\ ~guards.tasks[t].returned
    /\ guards' = [guards EXCEPT !.tasks[t] = [held |-> <<>>, returned |-> TRUE]]
    /\ UNCHANGED <<status, file, collections, item_cells, options_cells, page,
                   current_set_index, offers, tasks, stderr, events, stale,
                   converted, pc>>

\* Message::MarketSearchResult of a future that has ended: no lock is
\* taken.
SearchResultHandled(t, lots) ==
    /\ CanBegin
    /\ t \in 1..Len(tasks)
    /\ guards.tasks[t].returned
    /\ lots \in ResponsesFor(tasks[t].vars)
    /\ offers' = PushLots(offers, tasks[t].item_title, lots)
    /\ tasks' = Without(tasks, t)
    /\ stale' = Without(stale, t)
    /\ guards' = [guards EXCEPT !.tasks = Without(@, t)]
    /\ events' = events + 1
    /\ ViewStarts
    /\ UNCHANGED <<status, file, collections, item_cells, options_cells, page,
                   current_set_index, stderr, converted>>

\* The items in the order in which to_string_pretty serializes them.
SerializedItems ==
    Concat([i \in 1..Len(collections) |->
        Concat([j \in 1..Len(collections[i].sets) |->
            collections[i].sets[j].items])])

\* The steps of Message::SaveCollections: the serializer visits the items
\* in order, and for each locks the item, locks its options while it
\* writes them, and drops both guards.
SaveCollectionsBegins ==
    /\ CanBegin
    /\ pc' = [pc EXCEPT !.at = "507", !.k = 1]
    /\ events' = events + 1
    /\ UNCHANGED <<status, file, collections, item_cells, options_cells, page,
                   current_set_index, offers, tasks, stderr, stale, converted,
                   guards>>

SerializeLocksItem ==
    /\ pc.at = "507"
    /\ Lock(ItemLock(SerializedItems[pc.k]))
    /\ Goto("507 item")
    /\ UNCHANGED <<status, file, collections, item_cells, options_cells, page,
                   current_set_index, offers, tasks, stderr, events, stale,
                   converted>>

SerializeLocksOptions ==
    /\ pc.at = "507 item"
    /\ Lock(OptionsLock(SerializedItems[pc.k]))
    /\ Goto("507 options")
    /\ UNCHANGED <<status, file, collections, item_cells, options_cells, page,
                   current_set_index, offers, tasks, stderr, events, stale,
                   converted>>

SerializeDrops ==
    /\ pc.at = "507 options"
    /\ guards' = [guards EXCEPT !.main = <<>>]
    /\ pc' = IF pc.k < Len(SerializedItems)
             THEN [pc EXCEPT !.at = "507", !.k = pc.k + 1]
             ELSE [pc EXCEPT !.at = "509"]
    /\ UNCHANGED <<status, file, collections, item_cells, options_cells, page,
                   current_set_index, offers, tasks, stderr, events, stale,
                   converted>>

\* std::fs::write(path, data) and the report of its failure.
SaveCollectionsWrites(outcome) ==
    /\ pc.at = "509"
    /\ LET data == RonText(SerializeCollection(
                        ValueOf(collections, item_cells, options_cells)))
       IN  file' = Written(data, outcome)
    /\ stderr' = IF outcome = "ok" THEN stderr
                 ELSE Append(stderr, "failed to save collections")
    /\ ViewStarts
    /\ UNCHANGED <<status, collections, item_cells, options_cells, page,
                   current_set_index, offers, tasks, events, stale, converted,
                   guards>>

\* The steps of view_collections for the k-th item of the selected set: the
\* item is locked for the statement that reads its title, again for the
\* statement that clones it, and the options are locked for the loop over
\* the togglers.
ViewLocksItemForTitle ==
    /\ pc.at = "616"
    /\ Lock(ItemLock(ShownItems[pc.k]))
    /\ Goto("616 held")
    /\ UNCHANGED <<status, file, collections, item_cells, options_cells, page,
                   current_set_index, offers, tasks, stderr, events, stale,
                   converted>>

ViewDropsItemForTitle ==
    /\ pc.at = "616 held"
    /\ Drop(ItemLock(ShownItems[pc.k]))
    /\ Goto("621")
    /\ UNCHANGED <<status, file, collections, item_cells, options_cells, page,
                   current_set_index, offers, tasks, stderr, events, stale,
                   converted>>

ViewLocksItemForClone ==
    /\ pc.at = "621"
    /\ Lock(ItemLock(ShownItems[pc.k]))
    /\ Goto("621 held")
    /\ UNCHANGED <<status, file, collections, item_cells, options_cells, page,
                   current_set_index, offers, tasks, stderr, events, stale,
                   converted>>

ViewDropsItemForClone ==
    /\ pc.at = "621 held"
    /\ Drop(ItemLock(ShownItems[pc.k]))
    /\ Goto("623")
    /\ UNCHANGED <<status, file, collections, item_cells, options_cells, page,
                   current_set_index, offers, tasks, stderr, events, stale,
                   converted>>

ViewLocksOptions ==
    /\ pc.at = "623"
    /\ Lock(OptionsLock(ShownItems[pc.k]))
    /\ Goto("623 held")
    /\ UNCHANGED <<status, file, collections, item_cells, options_cells, page,
                   current_set_index, offers, tasks, stderr, events, stale,
                   converted>>

\* The loop over the togglers ends and with it the guard of the options;
\* after the fifth item the view is built.
ViewDropsOptions ==
    /\ pc.at = "623 held"
    /\ Drop(OptionsLock(ShownItems[pc.k]))
    /\ pc' = IF pc.k < 5
             THEN [pc EXCEPT !.at = "616", !.k = pc.k + 1]
             ELSE [pc EXCEPT !.at = "idle"]
    /\ UNCHANGED <<status, file, collections, item_cells, options_cells, page,
                   current_set_index, offers, tasks, stderr, events, stale,
                   converted>>

\* The steps the main thread takes on its own once an event has begun.
MainRuns ==
    \/ UpdateItemLocksItem \/ UpdateItemLocksOptions \/ UpdateItemInserts
    \/ UpdateItemReturns
    \/ SearchMarketLocksItem \/ GqlVarsLocksOptions \/ GqlVarsReturns
    \/ SearchMarketDispatches
    \/ SerializeLocksItem \/ SerializeLocksOptions \/ SerializeDrops
    \/ \E outcome \in {"ok", "not opened", "not written"} :
        SaveCollectionsWrites(outcome)
    \/ ViewLocksItemForTitle \/ ViewDropsItemForTitle \/ ViewLocksItemForClone
    \/ ViewDropsItemForClone \/ ViewLocksOptions \/ ViewDropsOptions

(* The specification of the locks: a first launch, whose view is about to  *)
(* be built, then events whose handlers and views run step by step while   *)
(* the queries of the searches return at any time. The main thread is      *)
(* scheduled; nothing makes a query return.                                *)

InitLocks ==
    /\ Launched(AppInit(NoFile, TRUE))
    /\ events = 0
    /\ pc = [MainIdle EXCEPT !.at = "616", !.k = 1]
    /\ guards = NoGuards

NextLocks ==
    \/ \E k \in SlotChoices, option \in OptionChoices, enabled \in BOOLEAN :
        UpdateItemBegins(ShownItems[k], option, enabled)
    \/ \E k \in SlotChoices : SearchMarketBegins(ShownItems[k])
    \/ SaveCollectionsBegins
    \/ \E t \in 1..Len(tasks) : QueryReturns(t)
    \/ \E t \in 1..Len(tasks) : \E lots \in ResponsesFor(tasks[t].vars) :
        SearchResultHandled(t, lots)
    \/ MainRuns

SpecLocks == InitLocks /\ [][NextLocks]_vars /\ WF_vars(MainRuns)

-----------------------------------------------------------------------------
(* Reading the state as the claims do.                                     *)

\* The flag of kind k on the item behind reference r; FALSE when the map
\* has no entry for k.
Flag(r, k) ==
    \E e \in 1..Len(options_cells[item_cells[r].options]) :
        options_cells[item_cells[r].options][e] = <<k, TRUE>>

\* The filter field of each option kind.
FilterField(vs, k) ==
    CASE k = MH -> vs.filter.iml
      [] k = SD -> vs.filter.imsd
      [] k = DD -> vs.filter.dd
      [] k = Ref -> vs.filter.rd
      [] k = Dsr -> vs.filter.dsr
      [] k = Zen -> vs.filter.izdr

\* The key of each option kind in the JSON object of the filter.
FilterKey(k) ==
    CASE k = MH -> "iml"
      [] k = SD -> "imsd"
      [] k = DD -> "dd"
      [] k = Ref -> "rd"
      [] k = Dsr -> "dsr"
      [] k = Zen -> "izdr"

\* The lower-cased slot types, by discriminant.
LowerCasedTypes == <<"helm", "armor", "pants", "gloves", "boots">>

\* The variables vs are those the claim C1 describes for the item behind r.
VarsAsSpecified(r, vs) ==
    /\ \A k \in ItemOptionType :
        FilterField(vs, k) = IF Flag(r, k) THEN <<(<<0, 1, 2, 3, 4>>)>> ELSE <<>>
    /\ vs.filter.item_type = << <<LowerCasedTypes[item_cells[r].item_type[1] + 1]>> >>
    /\ vs.filter.name = item_cells[r].name
    /\ vs.limit = 200
    /\ vs.offset = 0
    /\ vs.sort = [field |-> "LOT_FIELD_MIN_PRICE", sort_type |-> "SORT_TYPE_ASC"]

\* C1: whenever SearchMarket(item) is handled, the variables of the task
\* it dispatches have iml, imsd, dd, rd, dsr, izdr set to [0,1,2,3,4]
\* exactly for the enabled kinds MH, SD, DD, Ref, Dsr, Zen and None for the
\* others, type the one-element list of the lower-cased slot type, name the
\* item's name, limit 200, offset 0 and the sort by LOT_FIELD_MIN_PRICE,
\* SORT_TYPE_ASC.
C1_GqlVars ==
    [][\A r \in DOMAIN item_cells :
        SearchMarket(r) => VarsAsSpecified(r, tasks'[Len(tasks')].vars)]_vars

\* C1 witness: the search of the spec's example has been dispatched: a
\* Pad Helm with exactly DD and Zen enabled.
C1_Witness ==
    \E t \in 1..Len(tasks) :
        /\ tasks[t].item_title = <<"Pad", "Helm">>
        /\ tasks[t].vars.filter.dd = Some(<<0, 1, 2, 3, 4>>)
        /\ tasks[t].vars.filter.izdr = Some(<<0, 1, 2, 3, 4>>)
        /\ tasks[t].vars.filter.iml = None
        /\ tasks[t].vars.filter.imsd = None
        /\ tasks[t].vars.filter.rd = None
        /\ tasks[t].vars.filter.dsr = None

\* C2: in the variables object sent for a search, the key of every option
\* field that is None (its option is disabled) is absent.
C2_DisabledKeysAbsent ==
    \A t \in 1..Len(tasks) : \A k \in ItemOptionType :
        FilterField(tasks[t].vars, k) = None
            => FilterKey(k) \notin DOMAIN tasks[t].variables.filter

\* C3: when the result of a search is handled, every offer that the list
\* holds afterwards is an offer of that search (a lot listing the item the
\* search was started for): nothing is left over from an earlier search.
C3_ListHoldsOnlyThatSearch ==
    [][\A t \in 1..Len(tasks) : \A lots \in ResponsesFor(tasks[t].vars) :
        MarketSearchResult(t, lots) =>
            \A e \in 1..Len(offers'[2]) :
                offers'[2][e].listing =
                    <<tasks[t].vars.filter.name, tasks[t].vars.filter.item_type>>]_vars

\* C4: after UpdateItem(item, option, enabled), for any of the shown items
\* (the items whose togglers emit the message), the flag of option on the
\* item is enabled, read through the item's reference (which every holder
\* of the item shares: the cells and the collection's references are as
\* before); the item's other flags and the options of every other item,
\* read through its reference, are unchanged, those of an item of the same
\* name and slot included.
C4_UpdateItemFrame ==
    [][status = "running" =>
        \A s \in 1..5, option \in ItemOptionType, enabled \in BOOLEAN :
            LET item == ShownItems[s]
            IN  UpdateItem(item, option, enabled) =>
                    /\ Flag(item, option)' = enabled
                    /\ \A k \in ItemOptionType \ {option} :
                        Flag(item, k)' = Flag(item, k)
                    /\ \A r \in DOMAIN item_cells \ {item} :
                        options_cells'[item_cells'[r].options] =
                            options_cells[item_cells[r].options]
                    /\ item_cells' = item_cells
                    /\ collections' = collections]_vars

\* C4 witness: DD has been set on one item and not on another item of the
\* same name and slot type (the Pad Helm of another class).
C4_Witness ==
    \E r \in DOMAIN item_cells, h \in DOMAIN item_cells :
        /\ r # h
        /\ item_cells[r].name = item_cells[h].name
        /\ item_cells[r].item_type = item_cells[h].item_type
        /\ Flag(r, DD)
        /\ ~Flag(h, DD)
        /\ \A k \in ItemOptionType \ {DD} : ~Flag(r, k)

\* The six option kinds in ordinal order.
OrdinalOrder == <<MH, SD, DD, Ref, Dsr, Zen>>

\* The kinds of a map in the order it enumerates them.
Enumerated(m) == [e \in 1..Len(m) |-> m[e][1]]

\* C5: Item::new gives options that enumerate the six kinds in the order
\* MH, SD, DD, Ref, Dsr, Zen, all false, and so does every item of the
\* collection of a first launch; after any toggles every item still
\* enumerates its options in that order.
C5_OptionsInOrdinalOrder ==
    /\ \A s \in AllSets, t \in ItemType :
        ItemNew(AllSetsToString(s), t).options =
            [e \in 1..6 |-> <<OrdinalOrder[e], FALSE>>]
    /\ events = 0 =>
        \A r \in DOMAIN options_cells :
            options_cells[r] = [e \in 1..6 |-> <<OrdinalOrder[e], FALSE>>]
    /\ \A r \in DOMAIN options_cells : Enumerated(options_cells[r]) = OrdinalOrder

\* C5 witness: an item on which both DD and MH have been set enumerates
\* its options in ordinal order.
C5_Witness ==
    \E r \in DOMAIN options_cells :
        options_cells[r] = << <<MH, TRUE>>, <<SD, FALSE>>, <<DD, TRUE>>,
                              <<Ref, FALSE>>, <<Dsr, FALSE>>, <<Zen, FALSE>> >>

\* C6: the option map of every item has exactly the six option kinds as
\* its keys.
C6_SixKeys ==
    \A r \in DOMAIN options_cells :
        /\ BTreeKeys(options_cells[r]) = ItemOptionType
        /\ Len(options_cells[r]) = 6

\* C7: the text that SaveCollections would write for the collection in
\* memory decodes, and the startup load reads from it a collection equal
\* to the one in memory: classes, sets, items and every flag.
C7_RoundTrip ==
    LET value == ValueOf(collections, item_cells, options_cells)
        data == RonText(SerializeCollection(value))
    IN  /\ FromStrOk(data)
        /\ LoadCollections(data) = value

\* C7 witness: after toggles, a save and a launch, the file holds the
\* serialization of the collection in memory, in which MH is set on an
\* Armor, and nothing has been reported on the error stream.
C7_Witness ==
    /\ events >= 3
    /\ status = "running"
    /\ stderr = <<>>
    /\ \E r \in DOMAIN item_cells :
        item_cells[r].item_type = Some(Slot("Armor")) /\ Flag(r, MH)
    /\ file.exists
    /\ file.data = RonText(SerializeCollection(
                        ValueOf(collections, item_cells, options_cells)))

\* C8: after a launch that found no file, an empty file or a file that
\* does not parse, the application runs and its collection is the default
\* catalog.
C8_StartupGivesDefault ==
    (events = 0 /\ (~file.exists \/ file.data \in {EmptyText, GarbageText})) =>
        /\ status = "running"
        /\ ValueOf(collections, item_cells, options_cells) = PlayerCollectionDefault

\* C9: a step changes the file only when it handles SaveCollections; a
\* SaveCollections that succeeds leaves in the file exactly the
\* serialization of the collection in memory, with all 7 classes and the
\* current value of every flag; and SaveCollections changes neither the
\* collection, nor the offers, nor the set selection.
C9_FileChangesOnlyOnSave ==
    [][/\ file' # file =>
            \E outcome \in {"ok", "not opened", "not written"} : SaveCollections(outcome)
       /\ SaveCollections("ok") =>
            /\ file'.exists
            /\ file'.data = RonText(SerializeCollection(
                                ValueOf(collections, item_cells, options_cells)))
            /\ Len(file'.data.value) = 7
            /\ \A i \in 1..Len(collections) :
                /\ Len(file'.data.value[i].sets) = Len(collections[i].sets)
                /\ \A j \in 1..Len(collections[i].sets), k \in 1..5, e \in 1..6 :
                    file'.data.value[i].sets[j].items[k].options[e] =
                        <<ItemOptionTypeNames[e],
                          Flag(collections[i].sets[j].items[k], OrdinalOrder[e])>>
       /\ (\E outcome \in {"ok", "not opened", "not written"} : SaveCollections(outcome)) =>
            UNCHANGED <<collections, item_cells, options_cells, offers,
                        current_set_index>>]_vars

\* C9 witness: a save has succeeded after a toggle and while the offers are
\* listed: the file holds the collection with DD set on an item.
C9_Witness ==
    /\ offers[2] # <<>>
    /\ \E r \in DOMAIN item_cells : Flag(r, DD)
    /\ file.exists
    /\ file.data = RonText(SerializeCollection(
                        ValueOf(collections, item_cells, options_cells)))

\* The classes of the catalog and the numbers of their sets, in order.
CatalogClasses == <<"DarkWizard", "DarkKnight", "Elf", "Summoner",
                    "MagicGladiator", "DarkLord", "RageFighter">>

\* C10: once init has constructed the model, the collection holds the 7
\* classes once each, in order, each with the set list of the default
\* catalog (Dark Wizard: Pad, Bone, Sphinx, Legendary, GrandSoul, DarkSoul,
\* VenomMist); every set holds 5 items of the slot types Helm, Armor,
\* Pants, Gloves, Boots in this order, each named by the label of its set.
C10_CatalogStructure ==
    ~(events = 0 /\ status = "panicked") =>
        /\ [i \in 1..Len(collections) |-> ClassSetsNames[collections[i].class + 1]]
                = CatalogClasses
        /\ [j \in 1..Len(collections[1].sets) |->
                AllSetsNames[collections[1].sets[j].set]]
                = <<"Pad", "Bone", "Sphinx", "Legendary", "GrandSoul", "DarkSoul",
                    "VenomMist">>
        /\ \A i \in 1..Len(collections) :
            /\ Len(collections[i].sets) = Len(PlayerCollectionDefault[i].sets)
            /\ \A j \in 1..Len(collections[i].sets) :
                /\ collections[i].sets[j].set = PlayerCollectionDefault[i].sets[j].set
                /\ Len(collections[i].sets[j].items) = 5
                /\ \A k \in 1..5 :
                    LET it == item_cells[collections[i].sets[j].items[k]]
                    IN  /\ IsSome(it.item_type)
                        /\ ItemTypeToString(Unwrap(it.item_type)) =
                            <<"Helm", "Armor", "Pants", "Gloves", "Boots">>[k]
                        /\ it.name = Some(AllSetsToString(collections[i].sets[j].set))

\* C10 witness: a flag has been set, the collection has been saved and the
\* Magic Gladiator has been selected.
C10_Witness ==
    /\ page = Page("MagicGladiator")
    /\ status = "running"
    /\ \E r \in DOMAIN item_cells : Flag(r, DD)
    /\ file.exists
    /\ file.data.text = "ron"

\* C11: once init has constructed the model from the default catalog, each
\* of the 44 set names is in the set list of at least one class.
C11_CatalogExhaustive ==
    ~(events = 0 /\ status = "panicked") =>
        \A s \in AllSets :
            \E i \in 1..Len(collections) : \E j \in 1..Len(collections[i].sets) :
                collections[i].sets[j].set = s

\* C12: the 44 labels are pairwise distinct; a conversion called on the
\* label of a set name (of a slot type) has returned that set name (slot
\* type); and a conversion called on any other string has returned no
\* value: it has panicked.
C12_LabelRoundTrip ==
    /\ \A s \in AllSets, t \in AllSets :
        s # t => AllSetsToString(s) # AllSetsToString(t)
    /\ converted.of = "AllSets" =>
        /\ \A s \in AllSets :
            converted.input = AllSetsToString(s) => converted.output = Some(s)
        /\ converted.input \notin SetLabels =>
            converted.output = None /\ status = "panicked"
    /\ converted.of = "ItemType" =>
        /\ \A t \in ItemType :
            converted.input = ItemTypeToString(t) => converted.output = Some(t)
        /\ converted.input \notin TypeLabels =>
            converted.output = None /\ status = "panicked"

\* C12 witness: the label of GrandSoul, which differs from the name of the
\* variant, has been converted back to GrandSoul.
C12_Witness ==
    /\ converted.of = "AllSets"
    /\ converted.input = "Grand Soul"
    /\ converted.output = Some(Set("GrandSoul"))
    /\ status = "running"

\* C13: a MarketSearchResult step that carries the lots L while the list
\* holds O leaves the list equal to O followed by L, every lot as it was
\* received, and changes neither the collection nor the set index.
C13_ResultAppended ==
    [][\A t \in 1..Len(tasks) : \A lots \in ResponsesFor(tasks[t].vars) :
        MarketSearchResult(t, lots) =>
            /\ offers'[2] = offers[2] \o lots
            /\ UNCHANGED <<collections, item_cells, options_cells,
                           current_set_index>>]_vars

\* C13 witness: the list holds more lots than one response carries, two
\* of them equal and one without a gear score: a second result has been
\* appended to the lots of a first, nothing filtered or deduplicated.
C13_Witness ==
    /\ Len(offers[2]) > MaxLots
    /\ \E e \in 1..Len(offers[2]), h \in 1..Len(offers[2]) :
        e # h /\ offers[2][e] = offers[2][h]
    /\ \E e \in 1..Len(offers[2]) : offers[2][e].gear_score = None

\* C14: a ClearOffers step leaves the list empty and changes neither the
\* collection (its cells and flags), nor the set index, nor the file; a
\* step that selects a class leaves the list empty too.
C14_ClearEmptiesOnly ==
    [][/\ ClearOffers =>
            /\ offers'[2] = <<>>
            /\ UNCHANGED <<collections, item_cells, options_cells,
                           current_set_index, file>>
       /\ (\E p \in NavChoices : NavSelect(p)) => offers'[2] = <<>>]_vars

\* C14 witness: the list is empty and still carries the tag of a search:
\* it held offers and has been emptied.
C14_Witness ==
    /\ offers[2] = <<>>
    /\ offers[1] # <<>>
    /\ \E r \in DOMAIN item_cells : Flag(r, DD)

\* C15: a SearchMarket step keeps every future already in flight and adds
\* its own; while one search is in flight and the list is empty a second
\* search can be started; and of the searches in flight every one can
\* deliver its result next, whatever the order in which they were started.
C15_SecondSearchRuns ==
    /\ [][status = "running" =>
            \A k \in 1..5 :
                SearchMarket(ShownItems[k]) =>
                    /\ Len(tasks') = Len(tasks) + 1
                    /\ SubSeq(tasks', 1, Len(tasks)) = tasks]_vars
    /\ []((status = "running" /\ events < MaxEvents) =>
            /\ (Len(tasks) = 1 /\ offers[2] = <<>>) =>
                    ENABLED SearchMarket(ShownItems[1])
            /\ \A t \in 1..Len(tasks) :
                    ENABLED (\E lots \in ResponsesFor(tasks[t].vars) \ {<<>>} :
                                MarketSearchResult(t, lots)))

\* C15 witness: both of two searches have delivered: the list holds the
\* lots of two different items, the later started search's lots first.
C15_Witness ==
    /\ tasks = <<>>
    /\ Len(offers[2]) = 2
    /\ offers[2][1].listing[2] = Some(<<"armor">>)
    /\ offers[2][2].listing[2] = Some(<<"helm">>)

\* C16: once init has constructed the model, the current set index is a
\* position in the set list of the selected class, and the view of the
\* selected set can be built: the application runs.
C16_SetIndexValid ==
    ~(events = 0 /\ status = "panicked") =>
        /\ current_set_index < Len(SetsOf(collections, page))
        /\ status = "running"

\* C17: a step in which a search task fails delivers nothing: the task is
\* no longer in flight, the offers with their tag, the collection and the
\* set index are as before, and the application still runs.
C17_FailedSearchChangesNothing ==
    [][\A t \in 1..Len(tasks) :
        SearchTaskPanics(t) =>
            /\ Len(tasks') = Len(tasks) - 1
            /\ offers' = offers
            /\ UNCHANGED <<collections, item_cells, options_cells,
                           current_set_index, page>>
            /\ status' = "running"]_vars

\* C17 witness: of two searches one has failed and the other has
\* delivered its lots, which are listed.
C17_Witness ==
    /\ "search task panicked" \in Range(stderr)
    /\ offers[2] # <<>>
    /\ tasks = <<>>
    /\ status = "running"


\* C18: when the list has been emptied by ClearOffers or by a class
\* selection since a search was dispatched, and is still empty, the result
\* of that search leaves the list empty.
C18_StaleResultDropped ==
    [][\A t \in 1..Len(tasks) : \A lots \in ResponsesFor(tasks[t].vars) :
        (MarketSearchResult(t, lots) /\ stale[t] /\ offers[2] = <<>>) =>
            offers'[2] = <<>>]_vars

\* Whether the document holds a set name or a slot type that the catalog
\* does not have.
UnknownLabelIn(value) ==
    \E i \in 1..Len(value) : \E j \in 1..Len(value[i].sets) :
        \/ value[i].sets[j].set \notin Range(AllSetsNames)
        \/ \E k \in 1..Len(value[i].sets[j].items) :
            LET t == value[i].sets[j].items[k].item_type
            IN  IsSome(t) /\ Unwrap(t) \notin Range(ItemTypeNames)

\* C19: a launch that found a non-empty file holding a set name or a slot
\* type that is not in the catalog has aborted.
C19_UnknownLabelIsFatal ==
    (events = 0 /\ file.exists /\ file.data.text = "ron"
        /\ UnknownLabelIn(file.data.value)) =>
        status = "panicked"

\* C20: a SaveCollections whose write fails appends its report to the error
\* stream and leaves the application running with the collection, the
\* offers and the set selection as they were.
C20_FailedSaveReported ==
    [][\A outcome \in {"not opened", "not written"} :
        SaveCollections(outcome) =>
            /\ stderr' = Append(stderr, "failed to save collections")
            /\ status' = "running"
            /\ UNCHANGED <<collections, item_cells, options_cells, offers,
                           current_set_index, page, tasks>>]_vars

\* C20 witness: after a toggle and a save that failed, a later save has
\* succeeded: the file holds the collection in memory with its flag.
C20_Witness ==
    /\ stderr = <<"failed to save collections">>
    /\ status = "running"
    /\ \E r \in DOMAIN item_cells : Flag(r, MH)
    /\ file.exists
    /\ file.data = RonText(SerializeCollection(
                        ValueOf(collections, item_cells, options_cells)))

\* C21: whenever the list holds offers, its tag is the title of an item of
\* the collection, and every offer of the list is a lot listing that item
\* (a lot a search for that item returns).
C21_OffersOfTaggedItem ==
    offers[2] # <<>> =>
        \E r \in DOMAIN item_cells :
            LET item_guard == ReadItem(item_cells, options_cells, r)
                v == generate_gql_vars(item_guard)
            IN  /\ offers[1] = ItemTitle(item_guard)
                /\ \A e \in 1..Len(offers[2]) :
                    offers[2][e].listing = <<v.filter.name, v.filter.item_type>>

\* In the guards q, in order of locking, the guard of an item comes before
\* the guard of that item's options.
ItemBeforeOptions(q) ==
    \A a \in 1..Len(q), b \in 1..Len(q) :
        (/\ q[a][1] = "item"
         /\ q[b][1] = "options"
         /\ item_cells[q[a][2]].options = q[b][2]) => a < b

\* C22: the main thread, inside a toggle, a search, a save or the view, can
\* always take its next step (the lock it asks for is free), and so every
\* handler and view it has begun comes to its end; where it holds the lock
\* of an item and that of the item's options it took the item's first; it
\* holds no lock when update or view has returned; and a search future
\* holds no lock at any time.
C22_NoLockHazard ==
    /\ [](/\ pc.at # "idle" => ENABLED MainRuns
          /\ ItemBeforeOptions(guards.main)
          /\ \A t \in 1..Len(guards.tasks) :
                ItemBeforeOptions(guards.tasks[t].held)
          /\ pc.at \in {"idle", "616"} => guards.main = <<>>
          /\ \A t \in 1..Len(guards.tasks) : guards.tasks[t].held = <<>>)
    /\ (pc.at # "idle" ~> pc.at = "idle")

\* C22 witness: while the query of a search for an item is in flight, a
\* toggle of the same item holds the lock of the item and, taken after it,
\* the lock of its options.
C22_Witness ==
    /\ pc.at = "138 held"
    /\ guards.main = <<ItemLock(pc.item), OptionsLock(pc.item)>>
    /\ Len(tasks) = 1
    /\ ~guards.tasks[1].returned
    /\ tasks[1].item_title =
        ItemTitle(ReadItem(item_cells, options_cells, pc.item))
=============================================================================
